---- MODULE Spec2Model ----
(***************************************************************************)
(* The input cursor of the regex matching engines (src/src/input.rs):      *)
(* the packed optional character Char, the position descriptor InputAt,    *)
(* and the two implementations of the Input trait, CharInput and           *)
(* ByteInput, over one immutable byte buffer.                              *)
(*                                                                         *)
(* Every operation is a pure function of (buffer, offset, searcher).  The  *)
(* state machine is the caller: it holds one Input view over a buffer and  *)
(* one descriptor, and applies the operations to them.                     *)
(*                                                                         *)
(* Representation.                                                         *)
(*   Option<T>   None is <<>>, Some(v) is <<v>>.                           *)
(*   u32         <<hi, lo>>, two 16-bit halves (u32::MAX does not fit the  *)
(*               model checker's integers); a char is its code point.      *)
(*   a call      [ok |-> TRUE, val |-> v] when it returns v, and           *)
(*               [ok |-> FALSE] when it panics (an out-of-range slice).    *)
(***************************************************************************)
EXTENDS Integers, Sequences, FiniteSets, TLC

VARIABLES
    buf,    \* the byte buffer the Input view borrows
    mode,   \* "char": the view is a CharInput; "byte": a ByteInput
    cur,    \* the descriptor (InputAt) the caller holds
    op,     \* the last operation called
    arg,    \* its argument besides the descriptor (an offset, the literals, a char)
    ret,    \* what it returned
    opt,    \* the Option<char> the Char value under test was built from
    chr     \* the Char value under test

vars == <<buf, mode, cur, op, arg, ret, opt, chr>>

\* ------------------------------------------------------------------ bounds

\* Every buffer of at most MaxLen bytes over Bytes is an input.
MaxLen == 3

\* One byte of each class of UTF-8: ASCII 'a', two continuation bytes (0x80,
\* 0xA0), a 2-byte lead (0xC3), two 3-byte leads (0xE0: overlong below 0xA0;
\* 0xED: surrogates from 0xA0), a 4-byte lead (0xF0: overlong below 0x90) and
\* a byte that occurs in no encoding (0xFF).
Bytes == {97, 128, 160, 195, 224, 237, 240, 255}

\* Longer buffers: "héllo", "a_b ", a 4-byte character alone and between
\* ASCII, an encoding above U+10FFFF, an overlong 2-byte encoding, a
\* 3-byte character after a stray continuation byte.
Examples ==
    { <<104, 195, 169, 108, 108, 111>>,
      <<97, 95, 98, 32>>,
      <<240, 160, 128, 128>>,
      <<97, 240, 160, 128, 128, 97>>,
      <<244, 144, 128, 128>>,
      <<192, 128>>,
      <<128, 237, 128, 128>> }

Buffers == (UNION {[1..k -> Bytes] : k \in 0..MaxLen}) \cup Examples

\* The offsets asked of at: every offset of every buffer, and one past it.
Offsets == 0..(MaxLen + 4)

\* The literal sets handed to prefix_at.
LiteralSets ==
    { {},
      {<<97>>},
      {<<128>>, <<195, 160>>},
      {<<108, 108>>, <<111>>},
      {<<>>} }

\* Unicode scalar values at every boundary of the encoding widths and of
\* the surrogate gap.
Scalars == {0, 97, 127, 128, 233, 255, 256, 2047, 2048, 55295, 57344, 65535, 65536, 1114111}

\* ------------------------------------------------------- Option and calls

None == <<>>
Some(v) == <<v>>

Ok(v) == [ok |-> TRUE, val |-> v]
Fault == [ok |-> FALSE]

\* Option::map(|(x, _)| x) on an Option of a pair.
map_fst(o) == IF o = None THEN None ELSE Some(o[1][1])

\* &s[i..] and &s[..j]: a panic when the index is past the end.
slice_from(s, i) == IF i > Len(s) THEN Fault ELSE Ok(SubSeq(s, i + 1, Len(s)))
slice_to(s, j) == IF j > Len(s) THEN Fault ELSE Ok(SubSeq(s, 1, j))

\* ---------------------------------------------------------- u32 and char

u32_MAX == <<65535, 65535>>

\* `c as u32` for a char c.
char_as_u32(c) == <<c \div 65536, c % 65536>>

\* std::char::from_u32: None above U+10FFFF and for a surrogate.
char_from_u32(x) ==
    IF x[1] > 16 THEN None
    ELSE IF x[1] = 0 /\ x[2] >= 55296 /\ x[2] <= 57343 THEN None
    ELSE Some(x[1] * 65536 + x[2])

\* char::len_utf8.
char_len_utf8(c) ==
    IF c < 128 THEN 1 ELSE IF c < 2048 THEN 2 ELSE IF c < 65536 THEN 3 ELSE 4

\* u32's partial_cmp.
u32_partial_cmp(x, y) ==
    IF x[1] < y[1] \/ (x[1] = y[1] /\ x[2] < y[2]) THEN Some("Less")
    ELSE IF x = y THEN Some("Equal")
    ELSE Some("Greater")

\* ------------------------------------------------------------------ Char

Char_is_none(self) == self = u32_MAX

Char_len_utf8(self) ==
    LET c == char_from_u32(self)
    IN  IF c = None THEN 0 ELSE char_len_utf8(c[1])

Char_as_char(self) == char_from_u32(self)

Char_from_char(c) == char_as_u32(c)

\* Mutant: the absent character packed as 0 instead of u32::MAX.
Mut_Char_from_option(c) == IF c = None THEN <<0, 0>> ELSE Char_from_char(c[1])

Char_from_option(c) == IF c = None THEN u32_MAX ELSE Char_from_char(c[1])

Char_eq_char(self, other) == self = char_as_u32(other)

char_eq_Char(self, other) == char_as_u32(self) = other

Char_partial_cmp_char(self, other) == u32_partial_cmp(self, char_as_u32(other))

\* Mutant: the operands of the comparison swapped.
Mut_char_partial_cmp_Char(self, other) == u32_partial_cmp(other, char_as_u32(self))

char_partial_cmp_Char(self, other) == u32_partial_cmp(char_as_u32(self), other)

\* --------------------------------------------------------------- InputAt

InputAt_is_start(self) == self.pos = 0

InputAt_is_end(self) == Char_is_none(self.c) /\ self.byte = None

InputAt_char(self) == self.c

InputAt_byte(self) == self.byte

InputAt_len(self) == self.len

InputAt_pos(self) == self.pos

\* Mutant: the next position one byte on, whatever the width.
Mut_InputAt_next_pos(self) == self.pos + 1

InputAt_next_pos(self) == self.pos + self.len

\* --------------------------------------------- the UTF-8 decoders (utf8)

\* The tag bits of a continuation byte: 0b11_000000 & b == 0b10_000000.
is_continuation(b) == b \div 64 = 2

is_start_byte(b) == ~is_continuation(b)

\* Forward: the scalar value encoded at the start of src and its width.
decode_utf8(src) ==
    IF Len(src) = 0 THEN None
    ELSE LET b0 == src[1] IN
    IF b0 <= 127 THEN Some(<<b0, 1>>)
    ELSE IF b0 >= 192 /\ b0 <= 223 THEN
        IF Len(src) < 2 THEN None
        ELSE IF ~is_continuation(src[2]) THEN None
        ELSE LET cp == (b0 % 64) * 64 + (src[2] % 64)
             IN  IF cp >= 128 /\ cp <= 2047
                 THEN Some(<<cp, 2>>)
                 ELSE None
    ELSE IF b0 >= 224 /\ b0 <= 239 THEN
        IF Len(src) < 3 THEN None
        ELSE IF ~is_continuation(src[2]) \/ ~is_continuation(src[3]) THEN None
        ELSE LET cp == (b0 % 32) * 4096 + (src[2] % 64) * 64 + (src[3] % 64)
             IN  IF cp >= 2048 /\ cp <= 65535 /\ char_from_u32(char_as_u32(cp)) # None
                 THEN Some(<<cp, 3>>)
                 ELSE None
    ELSE IF b0 >= 240 /\ b0 <= 247 THEN
        IF Len(src) < 4 THEN None
        ELSE IF \/ ~is_continuation(src[2])
                \/ ~is_continuation(src[3])
                \/ ~is_continuation(src[4]) THEN None
        ELSE LET cp == (b0 % 16) * 262144 + (src[2] % 64) * 4096
                       + (src[3] % 64) * 64 + (src[4] % 64)
             IN  IF cp >= 65536 /\ cp <= 1114111
                 THEN Some(<<cp, 4>>)
                 ELSE None
    ELSE None

\* The backward scan: from the last byte, back over at most three more bytes
\* to the nearest start byte.
RECURSIVE scan_back(_, _)
scan_back(src, start) ==
    LET floor == IF Len(src) >= 4 THEN Len(src) - 4 ELSE 0
    IN  IF start > floor
        THEN IF is_start_byte(src[start]) THEN start - 1
             ELSE scan_back(src, start - 1)
        ELSE start

\* Backward: the scalar value whose encoding ends at the end of src.
\* (start counts the bytes before the candidate sequence.)
decode_last_utf8(src) ==
    IF Len(src) = 0 THEN None
    ELSE IF src[Len(src)] <= 127 THEN Some(<<src[Len(src)], 1>>)
    ELSE LET start == scan_back(src, Len(src) - 1)
             r == decode_utf8(SubSeq(src, start + 1, Len(src)))
         IN  IF r = None THEN None
             ELSE IF r[1][2] < Len(src) - start THEN None
             ELSE r

\* --------------------------------------- the literal searcher (literals)

\* lit occurs in hay starting at offset s.
occurs_at(hay, lit, s) ==
    /\ s + Len(lit) <= Len(hay)
    /\ SubSeq(hay, s + 1, s + Len(lit)) = lit

\* find: the (start, end) of the earliest occurrence of a literal in hay.
LiteralSearcher_find(lits, hay) ==
    LET starts == {s \in 0..Len(hay) : \E l \in lits : occurs_at(hay, l, s)}
    IN  IF starts = {} THEN None
        ELSE LET s == CHOOSE x \in starts : \A y \in starts : x <= y
                 lens == {Len(l) : l \in {l \in lits : occurs_at(hay, l, s)}}
                 n == CHOOSE x \in lens : \A y \in lens : x <= y
             IN  Some(<<s, s + n>>)

\* ------------------------------------------------------------- CharInput

\* Mutant: a width of 1 when no character is decoded.
Mut_CharInput_at(self, i) ==
    LET s == slice_from(self, i)
    IN  IF ~s.ok THEN Fault
        ELSE LET c == Char_from_option(map_fst(decode_utf8(s.val)))
             IN  Ok([pos |-> i, c |-> c, byte |-> None,
                     len |-> IF Char_is_none(c) THEN 1 ELSE Char_len_utf8(c)])

CharInput_at(self, i) ==
    LET s == slice_from(self, i)
    IN  IF ~s.ok THEN Fault
        ELSE LET c == Char_from_option(map_fst(decode_utf8(s.val)))
             IN  Ok([pos |-> i, c |-> c, byte |-> None, len |-> Char_len_utf8(c)])

CharInput_next_char(self, at) == Ok(InputAt_char(at))

\* Mutant: the prefix decoded forward, from its start, instead of backward.
Mut_CharInput_previous_char(self, at) ==
    LET s == slice_to(self, InputAt_pos(at))
    IN  IF ~s.ok THEN Fault
        ELSE Ok(Char_from_option(map_fst(decode_utf8(s.val))))

CharInput_previous_char(self, at) ==
    LET s == slice_to(self, InputAt_pos(at))
    IN  IF ~s.ok THEN Fault
        ELSE Ok(Char_from_option(map_fst(decode_last_utf8(s.val))))

\* Mutant: the match start taken as an absolute offset.
Mut_CharInput_prefix_at(self, prefixes, at) ==
    LET s == slice_from(self, InputAt_pos(at))
    IN  IF ~s.ok THEN Fault
        ELSE LET m == LiteralSearcher_find(prefixes, s.val)
             IN  IF m = None THEN Ok(None)
                 ELSE LET d == CharInput_at(self, m[1][1])
                      IN  IF d.ok THEN Ok(Some(d.val)) ELSE Fault

CharInput_prefix_at(self, prefixes, at) ==
    LET s == slice_from(self, InputAt_pos(at))
    IN  IF ~s.ok THEN Fault
        ELSE LET m == LiteralSearcher_find(prefixes, s.val)
             IN  IF m = None THEN Ok(None)
                 ELSE LET d == CharInput_at(self, InputAt_pos(at) + m[1][1])
                      IN  IF d.ok THEN Ok(Some(d.val)) ELSE Fault

CharInput_len(self) == Len(self)

\* ------------------------------------------------------------- ByteInput

\* Mutant: the width taken from the (absent) character, as CharInput does.
Mut_ByteInput_at(self, i) ==
    Ok([pos |-> i,
        c |-> Char_from_option(None),
        byte |-> IF i < Len(self) THEN Some(self[i + 1]) ELSE None,
        len |-> Char_len_utf8(Char_from_option(None))])

ByteInput_at(self, i) ==
    Ok([pos |-> i,
        c |-> Char_from_option(None),
        byte |-> IF i < Len(self) THEN Some(self[i + 1]) ELSE None,
        len |-> 1])

\* Mutant: the suffix taken from the next position.
Mut_ByteInput_next_char_next_pos(self, at) ==
    LET s == slice_from(self, InputAt_next_pos(at))
    IN  IF ~s.ok THEN Fault
        ELSE Ok(Char_from_option(map_fst(decode_utf8(s.val))))

\* Mutant: the byte at the position taken for the character.
Mut_ByteInput_next_char_byte(self, at) ==
    LET s == slice_from(self, InputAt_pos(at))
    IN  IF ~s.ok THEN Fault
        ELSE Ok(Char_from_option(IF s.val = <<>> THEN None ELSE Some(s.val[1])))

ByteInput_next_char(self, at) ==
    LET s == slice_from(self, InputAt_pos(at))
    IN  IF ~s.ok THEN Fault
        ELSE Ok(Char_from_option(map_fst(decode_utf8(s.val))))

ByteInput_previous_char(self, at) ==
    LET s == slice_to(self, InputAt_pos(at))
    IN  IF ~s.ok THEN Fault
        ELSE Ok(Char_from_option(map_fst(decode_last_utf8(s.val))))

ByteInput_prefix_at(self, prefixes, at) ==
    LET s == slice_from(self, InputAt_pos(at))
    IN  IF ~s.ok THEN Fault
        ELSE LET m == LiteralSearcher_find(prefixes, s.val)
             IN  IF m = None THEN Ok(None)
                 ELSE LET d == ByteInput_at(self, InputAt_pos(at) + m[1][1])
                      IN  IF d.ok THEN Ok(Some(d.val)) ELSE Fault

ByteInput_len(self) == Len(self)

\* ------------------------------------------------- the Input trait object

Input_at(m, self, i) ==
    IF m = "char" THEN CharInput_at(self, i) ELSE ByteInput_at(self, i)

Input_next_char(m, self, at) ==
    IF m = "char" THEN CharInput_next_char(self, at) ELSE ByteInput_next_char(self, at)

Input_previous_char(m, self, at) ==
    IF m = "char" THEN CharInput_previous_char(self, at)
    ELSE ByteInput_previous_char(self, at)

Input_prefix_at(m, self, prefixes, at) ==
    IF m = "char" THEN CharInput_prefix_at(self, prefixes, at)
    ELSE ByteInput_prefix_at(self, prefixes, at)

Input_len(m, self) ==
    IF m = "char" THEN CharInput_len(self) ELSE ByteInput_len(self)

\* ------------------------------------------------- the cursor: the caller

\* A view is made over a buffer (CharInput::new, ByteInput::new); the caller
\* starts from the descriptor of the start boundary, and no call is recorded.
Init ==
    /\ buf \in Buffers
    /\ mode \in {"char", "byte"}
    /\ cur = Input_at(mode, buf, 0).val
    /\ op = "new"
    /\ arg = 0
    /\ ret = Ok(None)
    /\ opt = None
    /\ chr = Char_from_option(None)

\* at(i), for an offset in range or one past the range.  A call that
\* panics leaves the caller's descriptor as it was.
At(i) ==
    /\ i <= Input_len(mode, buf) + 1
    /\ LET r == Input_at(mode, buf, i)
       IN  /\ op' = "at"
           /\ arg' = i
           /\ ret' = r
           /\ cur' = IF r.ok THEN r.val ELSE cur
    /\ UNCHANGED <<buf, mode, opt, chr>>

\* The caller's walk: at(d.next_pos()) while d is not the end.
Step ==
    /\ ~InputAt_is_end(cur)
    /\ LET r == Input_at(mode, buf, InputAt_next_pos(cur))
       IN  /\ op' = "step"
           /\ arg' = InputAt_next_pos(cur)
           /\ ret' = r
           /\ cur' = IF r.ok THEN r.val ELSE cur
    /\ UNCHANGED <<buf, mode, opt, chr>>

NextChar ==
    /\ op' = "next_char"
    /\ arg' = None
    /\ ret' = Input_next_char(mode, buf, cur)
    /\ UNCHANGED <<buf, mode, cur, opt, chr>>

PreviousChar ==
    /\ op' = "previous_char"
    /\ arg' = None
    /\ ret' = Input_previous_char(mode, buf, cur)
    /\ UNCHANGED <<buf, mode, cur, opt, chr>>

PrefixAt(prefixes) ==
    /\ op' = "prefix_at"
    /\ arg' = prefixes
    /\ ret' = Input_prefix_at(mode, buf, prefixes, cur)
    /\ UNCHANGED <<buf, mode, cur, opt, chr>>

Next ==
    \/ \E i \in Offsets : At(i)
    \/ Step
    \/ NextChar
    \/ PreviousChar
    \/ \E prefixes \in LiteralSets : PrefixAt(prefixes)

Spec == Init /\ [][Next]_vars

\* The walk alone, which the caller keeps taking while it can.
WalkSpec == Init /\ [][Step]_vars /\ WF_vars(Step)

\* ------------------------------------------------ the Char value's calls

OptChars == {None} \cup {Some(c) : c \in Scalars}

CharInit ==
    /\ buf = <<>>
    /\ mode = "char"
    /\ cur = Input_at("char", <<>>, 0).val
    /\ opt \in OptChars
    /\ chr = Char_from_option(opt)
    /\ op = "from"
    /\ arg = None
    /\ ret = Ok(chr)

\* Char::from(Option<char>).
FromOption(o) ==
    /\ opt' = o
    /\ chr' = Char_from_option(o)
    /\ op' = "from"
    /\ arg' = None
    /\ ret' = Ok(chr')
    /\ UNCHANGED <<buf, mode, cur>>

\* Char::from(char).
FromChar(c) ==
    /\ opt' = Some(c)
    /\ chr' = Char_from_char(c)
    /\ op' = "from"
    /\ arg' = None
    /\ ret' = Ok(chr')
    /\ UNCHANGED <<buf, mode, cur>>

IsNone ==
    /\ op' = "is_none"
    /\ arg' = None
    /\ ret' = Ok(Char_is_none(chr))
    /\ UNCHANGED <<buf, mode, cur, opt, chr>>

LenUtf8 ==
    /\ op' = "len_utf8"
    /\ arg' = None
    /\ ret' = Ok(Char_len_utf8(chr))
    /\ UNCHANGED <<buf, mode, cur, opt, chr>>

AsChar ==
    /\ op' = "as_char"
    /\ arg' = None
    /\ ret' = Ok(Char_as_char(chr))
    /\ UNCHANGED <<buf, mode, cur, opt, chr>>

\* chr == other and other == chr.
Eq(other) ==
    /\ op' = "eq"
    /\ arg' = Some(other)
    /\ ret' = Ok(<<Char_eq_char(chr, other), char_eq_Char(other, chr)>>)
    /\ UNCHANGED <<buf, mode, cur, opt, chr>>

\* chr.partial_cmp(other) and other.partial_cmp(chr).
PartialCmp(other) ==
    /\ op' = "partial_cmp"
    /\ arg' = Some(other)
    /\ ret' = Ok(<<Char_partial_cmp_char(chr, other), char_partial_cmp_Char(other, chr)>>)
    /\ UNCHANGED <<buf, mode, cur, opt, chr>>

CharNext ==
    \/ \E o \in OptChars : FromOption(o)
    \/ \E c \in Scalars : FromChar(c)
    \/ IsNone
    \/ LenUtf8
    \/ AsChar
    \/ \E other \in Scalars : Eq(other)
    \/ \E other \in Scalars : PartialCmp(other)

CharSpec == CharInit /\ [][CharNext]_vars

\* ---------------------------------------------- reference definitions
\* What the properties below are stated against: UTF-8 by its encoder, and
\* an occurrence of a literal by its bytes.

IsScalar(c) == c >= 0 /\ c <= 1114111 /\ ~(c >= 55296 /\ c <= 57343)

\* The UTF-8 encoding of a scalar value.
Utf8Encode(c) ==
    IF c < 128 THEN <<c>>
    ELSE IF c < 2048 THEN <<192 + (c \div 64), 128 + (c % 64)>>
    ELSE IF c < 65536
         THEN <<224 + (c \div 4096), 128 + ((c \div 64) % 64), 128 + (c % 64)>>
         ELSE <<240 + (c \div 262144), 128 + ((c \div 4096) % 64),
                128 + ((c \div 64) % 64), 128 + (c % 64)>>

\* The number a sequence of 1 to 4 bytes would encode, were it an encoding.
PayloadOf(s) ==
    IF Len(s) = 1 THEN s[1]
    ELSE IF Len(s) = 2 THEN (s[1] - 192) * 64 + (s[2] - 128)
    ELSE IF Len(s) = 3 THEN (s[1] - 224) * 4096 + (s[2] - 128) * 64 + (s[3] - 128)
    ELSE (s[1] - 240) * 262144 + (s[2] - 128) * 4096 + (s[3] - 128) * 64 + (s[4] - 128)

IsEncoding(s) == IsScalar(PayloadOf(s)) /\ Utf8Encode(PayloadOf(s)) = s

\* The widths n for which the n bytes of b from offset i encode a scalar value.
WidthsAt(b, i) ==
    {n \in 1..4 : i + n <= Len(b) /\ IsEncoding(SubSeq(b, i + 1, i + n))}

\* The scalar value encoded at offset i of b, if there is one.
ScalarAt(b, i) ==
    IF WidthsAt(b, i) = {} THEN None
    ELSE LET n == CHOOSE x \in WidthsAt(b, i) : TRUE
         IN  Some(PayloadOf(SubSeq(b, i + 1, i + n)))

\* The character boundaries of b from offset i on, as far as b is encoded.
RECURSIVE BoundariesFrom(_, _)
BoundariesFrom(b, i) ==
    IF WidthsAt(b, i) = {} THEN {i}
    ELSE {i} \cup BoundariesFrom(b, i + (CHOOSE x \in WidthsAt(b, i) : TRUE))

IsCharBoundary(b, i) == i \in BoundariesFrom(b, 0)

\* b is a sequence of encodings, end to end.
IsValidUtf8(b) == Len(b) \in BoundariesFrom(b, 0)

\* lit occurs in b starting at the absolute offset p.
OccursAt(b, lit, p) ==
    /\ p + Len(lit) <= Len(b)
    /\ \A k \in 1..Len(lit) : b[p + k] = lit[k]

\* The offsets at or after i where a literal of lits occurs in b.
Occurrences(b, lits, i) ==
    {p \in i..Len(b) : \E lit \in lits : OccursAt(b, lit, p)}

Least(S) == CHOOSE x \in S : \A y \in S : x <= y

IntCmp(a, b) == IF a < b THEN "Less" ELSE IF a = b THEN "Equal" ELSE "Greater"

\* The last call was at(arg), by the caller directly or as a step of its walk.
CalledAt == op \in {"at", "step"}

\* The last call was one of the three that take the descriptor cur.
CalledOnCur == op \in {"next_char", "previous_char", "prefix_at"}

\* The decoders (modelled from their contract) against the encoder: at every
\* offset the forward decoder gives the scalar value encoded there, and the
\* backward decoder one whose encoding ends there, if there is any.
DecodersMatchEncoding ==
    \A i \in 0..Len(buf) :
        /\ map_fst(decode_utf8(SubSeq(buf, i + 1, Len(buf)))) = ScalarAt(buf, i)
        /\ LET r == decode_last_utf8(SubSeq(buf, 1, i))
               ends == {j \in 0..(i - 1) : i - j \in WidthsAt(buf, j)}
           IN  IF ends = {} THEN r = None
               ELSE /\ r # None
                    /\ \E j \in ends : map_fst(r) = ScalarAt(buf, j) /\ r[1][2] = i - j

\* ------------------------------------------------------------ properties

\* C1: in both cursor modes no operation faults on an in-range query: at(i)
\* for i in 0..=len(), and next_char, previous_char and prefix_at on the
\* descriptor of such an offset, all return a value.
C1_NoFaultInRange ==
    /\ (CalledAt /\ arg <= Len(buf)) => ret.ok
    /\ (CalledOnCur /\ InputAt_pos(cur) <= Len(buf)) => ret.ok

\* C1 witness: prefix_at on the descriptor of the end boundary of a non-empty
\* buffer returned a descriptor (the empty literal occurs at the end).
C1_Witness ==
    /\ op = "prefix_at"
    /\ Len(buf) > 0
    /\ InputAt_pos(cur) = Len(buf)
    /\ ret.ok
    /\ ret.val # None

\* A query past the range does fault: at(len() + 1) in character mode.
C1_FaultPastRange ==
    /\ mode = "char"
    /\ op = "at"
    /\ arg = Len(buf) + 1
    /\ ~ret.ok

\* C2 (as claimed): in both cursor modes and for every buffer, at(i).is_end()
\* holds if and only if i == len(), and at(0).is_start() holds.
C2_IsEndIffAtLen ==
    (CalledAt /\ arg <= Len(buf)) =>
        /\ ret.ok
        /\ InputAt_is_end(ret.val) <=> (arg = Len(buf))
        /\ (arg = 0) => InputAt_is_start(ret.val)

\* C3: in byte mode, for every buffer and every i in 0..=len(), at(i) has
\* pos() == i, len() == 1, an absent char(), byte() == Some(buffer[i]) below
\* len() and None at len(), and next_pos() == i + 1.
C3_ByteAt ==
    (mode = "byte" /\ CalledAt /\ arg <= Len(buf)) =>
        /\ ret.ok
        /\ InputAt_pos(ret.val) = arg
        /\ InputAt_len(ret.val) = 1
        /\ Char_is_none(InputAt_char(ret.val))
        /\ Char_as_char(InputAt_char(ret.val)) = None
        /\ InputAt_byte(ret.val) = IF arg < Len(buf) THEN Some(buf[arg + 1]) ELSE None
        /\ InputAt_next_pos(ret.val) = arg + 1

\* C3 witness: byte mode at offset 0 of [0xFF, 0x61]: the byte is 0xFF.
C3_Witness ==
    /\ mode = "byte"
    /\ buf = <<255, 97>>
    /\ op = "at"
    /\ arg = 0
    /\ InputAt_byte(ret.val) = Some(255)

\* C4: in character mode, for every buffer and every i in 0..=len(), at(i)
\* has pos() == i, byte() == None, char() the result of the forward decoder
\* on the suffix from i (absent when decoding fails or i == len()), len() the
\* UTF-8 width of that character and 0 when it is absent, and
\* next_pos() == i + len_utf8(char()).
C4_CharAt ==
    (mode = "char" /\ CalledAt /\ arg <= Len(buf)) =>
        /\ ret.ok
        /\ LET d == ret.val
               r == decode_utf8(SubSeq(buf, arg + 1, Len(buf)))
           IN  /\ InputAt_pos(d) = arg
               /\ InputAt_byte(d) = None
               /\ Char_as_char(InputAt_char(d)) = map_fst(r)
               /\ (arg = Len(buf)) => Char_is_none(InputAt_char(d))
               /\ (r = None) => (Char_is_none(InputAt_char(d)) /\ InputAt_len(d) = 0)
               /\ (r # None) =>
                    /\ InputAt_len(d) = Len(Utf8Encode(r[1][1]))
                    /\ InputAt_len(d) = r[1][2]
               /\ InputAt_next_pos(d) = arg + Char_len_utf8(InputAt_char(d))

\* C4 witness: character mode at an offset below len() where decoding fails:
\* the character is absent and the width is 0.
C4_Witness ==
    /\ mode = "char"
    /\ op = "at"
    /\ arg < Len(buf)
    /\ ret.ok
    /\ Char_is_none(InputAt_char(ret.val))
    /\ InputAt_len(ret.val) = 0
    /\ InputAt_next_pos(ret.val) = arg

\* Character mode on a 4-byte character: the width is 4.
C4_WitnessWide ==
    /\ mode = "char"
    /\ CalledAt
    /\ ret.ok
    /\ InputAt_len(ret.val) = 4

\* C5: in both modes, prefix_at(searcher, at(i)) is none when no registered
\* literal occurs at or after i, and otherwise the descriptor at(p) of the
\* earliest occurrence's absolute offset p, with i <= p <= len().
C5_PrefixAt ==
    (op = "prefix_at" /\ InputAt_pos(cur) <= Len(buf)) =>
        /\ ret.ok
        /\ LET occ == Occurrences(buf, arg, InputAt_pos(cur))
           IN  IF occ = {} THEN ret.val = None
               ELSE /\ ret.val = Some(Input_at(mode, buf, Least(occ)).val)
                    /\ InputAt_pos(ret.val[1]) = Least(occ)
                    /\ InputAt_pos(cur) <= InputAt_pos(ret.val[1])
                    /\ InputAt_pos(ret.val[1]) <= Len(buf)

\* C5 witness: scanning from an offset above 0, a literal found further on.
C5_Witness ==
    /\ op = "prefix_at"
    /\ InputAt_pos(cur) > 0
    /\ ret.ok
    /\ ret.val # None
    /\ InputAt_pos(ret.val[1]) > InputAt_pos(cur)
    /\ InputAt_pos(ret.val[1]) < Len(buf)

\* Scanning from a descriptor where literals are registered and none occurs.
C5_WitnessNone ==
    /\ op = "prefix_at"
    /\ arg # {}
    /\ InputAt_pos(cur) < Len(buf)
    /\ ret.ok
    /\ ret.val = None

\* C6: in character mode, for every valid UTF-8 buffer and every character
\* boundary i < len(), with d = at(i), previous_char(at(d.next_pos())) is
\* d.char(), and that character is present.
C6_RoundTrip ==
    (mode = "char" /\ op = "previous_char" /\ IsValidUtf8(buf)) =>
        \A i \in 0..(Len(buf) - 1) :
            LET d == CharInput_at(buf, i).val
            IN  (IsCharBoundary(buf, i) /\ InputAt_next_pos(d) = InputAt_pos(cur)) =>
                    /\ ret = Ok(InputAt_char(d))
                    /\ Char_as_char(ret.val) = ScalarAt(buf, i)
                    /\ ~Char_is_none(ret.val)

\* C6 witness: "héllo": previous_char(at(3)) is 'é', which at(1) decodes
\* with width 2.
C6_Witness ==
    /\ mode = "char"
    /\ op = "previous_char"
    /\ buf = <<104, 195, 169, 108, 108, 111>>
    /\ InputAt_pos(cur) = 3
    /\ InputAt_next_pos(CharInput_at(buf, 1).val) = 3
    /\ InputAt_len(CharInput_at(buf, 1).val) = 2
    /\ Char_as_char(ret.val) = Some(233)

\* The round trip over a 4-byte character.
C6_WitnessWide ==
    /\ mode = "char"
    /\ op = "previous_char"
    /\ IsValidUtf8(buf)
    /\ ret.ok
    /\ Char_len_utf8(ret.val) = 4

\* C7: Char packs an optional character faithfully: Char::from(o).as_char()
\* is o, is_none() holds iff o is none, len_utf8() is the width (1..=4) of
\* the character's encoding and 0 for none, and the packed value of a
\* character is never the sentinel.
C7_CharPacking ==
    /\ Char_is_none(chr) <=> (opt = None)
    /\ (op = "from") => (ret.val = chr /\ Char_as_char(ret.val) = opt)
    /\ (op = "as_char") => (ret.val = opt)
    /\ (op = "is_none") => (ret.val = (opt = None))
    /\ (op = "len_utf8") =>
        (ret.val = IF opt = None THEN 0 ELSE Len(Utf8Encode(opt[1])))

\* C7 witness: the width of the last scalar value, U+10FFFF, was asked: 4.
C7_Witness ==
    /\ op = "len_utf8"
    /\ opt = Some(1114111)
    /\ ret.val = 4

\* The width of the absent character was asked: 0.
C7_WitnessAbsent ==
    /\ op = "len_utf8"
    /\ opt = None
    /\ ret.val = 0

\* C8: equality and ordering of a Char against a real character are those of
\* the code points, in either operand order; the absent Char is unequal to
\* every real character and on one side (above) of every one of them.
C8_CharOrder ==
    /\ (op = "eq" /\ opt # None) =>
        ret.val = <<opt[1] = arg[1], arg[1] = opt[1]>>
    /\ (op = "eq" /\ opt = None) => ret.val = <<FALSE, FALSE>>
    /\ (op = "partial_cmp" /\ opt # None) =>
        ret.val = <<Some(IntCmp(opt[1], arg[1])), Some(IntCmp(arg[1], opt[1]))>>
    /\ (op = "partial_cmp" /\ opt = None) =>
        ret.val = <<Some("Greater"), Some("Less")>>

\* C8 witness: a character of the upper half of the code space (U+10000)
\* compared with one of the lower half whose low 16 bits are larger (U+FFFF).
C8_Witness ==
    /\ op = "partial_cmp"
    /\ opt = Some(65536)
    /\ arg = Some(65535)
    /\ ret.val = <<Some("Greater"), Some("Less")>>

\* The absent Char compared with the largest scalar value.
C8_WitnessAbsent ==
    /\ op = "partial_cmp"
    /\ opt = None
    /\ arg = Some(1114111)

\* C9: the walk d = at(0), d = at(d.next_pos()) while not d.is_end(), in byte
\* mode on any buffer and in character mode on a valid UTF-8 buffer: no step
\* asks an offset above len() or faults, every step strictly increases the
\* offset, and the walk reaches the descriptor at len(), which is_end().
WalkCase == mode = "byte" \/ IsValidUtf8(buf)

WalkAtEnd == InputAt_pos(cur) = Len(buf) /\ InputAt_is_end(cur)

C9_WalkTerminates ==
    /\ []((WalkCase /\ op = "step") =>
            (ret.ok /\ arg <= Len(buf) /\ InputAt_pos(cur) = arg))
    /\ [][WalkCase => InputAt_pos(cur') > InputAt_pos(cur)]_vars
    /\ [](WalkCase => <>WalkAtEnd)

\* C9 witness: the walk of "héllo" in character mode came to the end by a
\* step.
C9_Witness ==
    /\ mode = "char"
    /\ buf = <<104, 195, 169, 108, 108, 111>>
    /\ op = "step"
    /\ WalkAtEnd

\* In character mode on a buffer that is not valid UTF-8 the walk stops
\* before the end: a step that does not advance.
C9_StuckOnMalformed ==
    /\ mode = "char"
    /\ op = "step"
    /\ InputAt_pos(cur) < Len(buf)
    /\ InputAt_next_pos(cur) = InputAt_pos(cur)

\* C10: for every buffer and every i in 0..=len(), next_char and
\* previous_char on at(i) give the same character in both cursor modes.
C10_ModesAgree ==
    (op \in {"next_char", "previous_char"} /\ InputAt_pos(cur) <= Len(buf)) =>
        LET dc == CharInput_at(buf, InputAt_pos(cur)).val
            db == ByteInput_at(buf, InputAt_pos(cur)).val
        IN  /\ cur = (IF mode = "char" THEN dc ELSE db)
            /\ (op = "next_char") =>
                /\ ret = CharInput_next_char(buf, dc)
                /\ ret = ByteInput_next_char(buf, db)
            /\ (op = "previous_char") =>
                /\ ret = CharInput_previous_char(buf, dc)
                /\ ret = ByteInput_previous_char(buf, db)

\* C10 witness: byte mode decoded a multi-byte character afresh at an offset
\* of a buffer that is not valid UTF-8.
C10_Witness ==
    /\ mode = "byte"
    /\ op = "next_char"
    /\ ~IsValidUtf8(buf)
    /\ ret.ok
    /\ Char_len_utf8(ret.val) > 1

====
